---- MODULE Spec2Model ----
(***************************************************************************)
(* A model of the notebook_tools package of the lending-club repository:   *)
(*   data_cleaning.py     conversion and filtering of the accepted loans   *)
(*   derived_features.py  duration in months, annualized return            *)
(*   database.py          the SQLite store behind a global engine handle   *)
(*                                                                         *)
(* Python strings are sequences of one-character strings, so that lower(), *)
(* split(), startswith() and the string comparisons are computed as the    *)
(* code computes them.  A dataframe is a sequence of rows, a row a record  *)
(* of cells, and a cell is NA or a tagged value.  A call's outcome is      *)
(* either a returned value or the exception it raised.                     *)
(***************************************************************************)
EXTENDS Integers, Sequences, FiniteSets, TLC

VARIABLES
    op,          \* the operation the session ran last ("load" before any)
    arg,         \* the dataframe handed to that operation, as it was loaded
    frame,       \* the same dataframe object now (conversions write in place)
    out,         \* the outcome of the last operation
    fileExists,  \* DATABASE_PATH.exists()
    engine,      \* DATABASE_ENGINE: None or the identity of an engine
    store,       \* the tables committed in the database file
    pc,          \* where create_database stands
    pending,     \* the tables argument of the create_database in progress
    created,     \* the number of engines create_engine has made
    unlinkFailed \* whether DATABASE_PATH.unlink() has ever raised

vars ==
    <<op, arg, frame, out, fileExists, engine, store, pc, pending, created, unlinkFailed>>

dbVars == <<fileExists, engine, store, pc, pending, created, unlinkFailed>>

frameVars == <<arg, frame>>

(***************************************************************************)
(* Values, cells and outcomes                                              *)
(***************************************************************************)
NA == [t |-> "NA"]

\* The tables of the store, and a table that is not there
TableNames == {"loan_data", "loan_metadata"}

NoTable == [exists |-> FALSE]

Str(s) == [t |-> "str", v |-> s]

Int64(n) == [t |-> "int", v |-> n]

Bool(b) == [t |-> "bool", v |-> b]

IsNA(c) == c.t = "NA"

Ok(v) == [kind |-> "ok", value |-> v]

Raise(e) == [kind |-> "raise", exc |-> e]

NoOutcome == [kind |-> "none"]

(***************************************************************************)
(* Python str methods                                                      *)
(***************************************************************************)
UpperChars ==
    <<"A","B","C","D","E","F","G","H","I","J","K","L","M","N","O","P","Q","R","S","T","U","V","W","X","Y","Z">>

LowerChars ==
    <<"a","b","c","d","e","f","g","h","i","j","k","l","m","n","o","p","q","r","s","t","u","v","w","x","y","z">>

Digits == <<"0","1","2","3","4","5","6","7","8","9">>

LowerChar(c) ==
    IF \E i \in DOMAIN UpperChars : UpperChars[i] = c
    THEN LowerChars[CHOOSE i \in DOMAIN UpperChars : UpperChars[i] = c]
    ELSE c

UpperChar(c) ==
    IF \E i \in DOMAIN LowerChars : LowerChars[i] = c
    THEN UpperChars[CHOOSE i \in DOMAIN LowerChars : LowerChars[i] = c]
    ELSE c

\* str.lower()
Lower(s) == [i \in DOMAIN s |-> LowerChar(s[i])]

\* str.upper()
Upper(s) == [i \in DOMAIN s |-> UpperChar(s[i])]

\* s[:n]
Prefix(s, n) == SubSeq(s, 1, IF n < Len(s) THEN n ELSE Len(s))

\* str.startswith(p)
StartsWith(s, p) == Len(s) >= Len(p) /\ SubSeq(s, 1, Len(p)) = p

\* The index of the first occurrence of the one-character separator, 0 if none.
FindChar(s, sep) ==
    IF \E i \in DOMAIN s : s[i] = sep
    THEN CHOOSE i \in DOMAIN s : s[i] = sep /\ \A j \in 1..(i - 1) : s[j] # sep
    ELSE 0

RECURSIVE Split(_, _)
\* str.split(sep) for a one-character separator: the list of the parts.
Split(s, sep) ==
    LET i == FindChar(s, sep)
    IN  IF i = 0 THEN <<s>>
        ELSE <<SubSeq(s, 1, i - 1)>> \o Split(SubSeq(s, i + 1, Len(s)), sep)

\* A mutant of Format02: format(n, "2") without the zero, which pads with a space
Format02_SpacePadded(n) ==
    <<IF n < 10 THEN " " ELSE Digits[(n \div 10) + 1], Digits[(n % 10) + 1]>>

\* format(n, "02") for 0 <= n <= 99
Format02(n) == <<Digits[(n \div 10) + 1], Digits[(n % 10) + 1]>>

(***************************************************************************)
(* data_cleaning: _get_iso_date_string and define_month_conversions        *)
(***************************************************************************)
\* calendar.month_name
month_name ==
    << <<>>,
       <<"J","a","n","u","a","r","y">>,
       <<"F","e","b","r","u","a","r","y">>,
       <<"M","a","r","c","h">>,
       <<"A","p","r","i","l">>,
       <<"M","a","y">>,
       <<"J","u","n","e">>,
       <<"J","u","l","y">>,
       <<"A","u","g","u","s","t">>,
       <<"S","e","p","t","e","m","b","e","r">>,
       <<"O","c","t","o","b","e","r">>,
       <<"N","o","v","e","m","b","e","r">>,
       <<"D","e","c","e","m","b","e","r">> >>

\* list(month_name)[1:]
ordered_months == Tail(month_name)

\* The dictionary {month.lower()[:3]: format(index + 1, "02")}, as the set of its
\* keys and the lookup of a key.
MonthKeys == {Prefix(Lower(ordered_months[i]), 3) : i \in DOMAIN ordered_months}

MonthLabel(key) ==
    Format02(CHOOSE i \in DOMAIN ordered_months :
                 Prefix(Lower(ordered_months[i]), 3) = key)

\* A mutant of get_iso_date_string: labels.get(month, "00") in place of labels[month]
get_iso_date_string_Get(element) ==
    LET parts == Split(Lower(element), "-")
    IN  IF Len(parts) # 2 THEN Raise("ValueError")
        ELSE IF parts[1] \notin MonthKeys THEN Ok(parts[2] \o <<"-","0","0">>)
        ELSE Ok(parts[2] \o <<"-">> \o MonthLabel(parts[1]))

\* month, year = element.lower().split("-"); return year + "-" + labels[month]
get_iso_date_string(element) ==
    LET parts == Split(Lower(element), "-")
    IN  IF Len(parts) # 2 THEN Raise("ValueError")
        ELSE IF parts[1] \notin MonthKeys THEN Raise("KeyError")
        ELSE Ok(parts[2] \o <<"-">> \o MonthLabel(parts[1]))

(***************************************************************************)
(* data_cleaning: convert_acc_loan_data                                    *)
(***************************************************************************)
ACC_LOANS_CONVERSIONS == {"time_intervals", "dates", "booleans"}

ACC_LOANS_DATE_COLUMNS ==
    <<"issue_d", "earliest_cr_line", "last_pymnt_d", "next_pymnt_d",
      "last_credit_pull_d", "sec_app_earliest_cr_line", "hardship_start_date",
      "hardship_end_date", "payment_plan_start_date", "debt_settlement_flag_date",
      "settlement_date">>

ACC_LOANS_BOOLEAN_COLUMNS == <<"pymnt_plan", "hardship_flag", "debt_settlement_flag">>

\* data[col_name]
Col(f, c) == [i \in DOMAIN f |-> f[i][c]]

\* data.loc[:, col_name] = values
SetCol(f, c, values) == [i \in DOMAIN f |-> [f[i] EXCEPT ![c] = values[i]]]

SetMin(S) == CHOOSE x \in S : \A y \in S : x <= y

\* The outcome of computing a column cell by cell: the exception of the first cell
\* that raises, or the column of the returned cells.
Collect(results) ==
    LET bad == {i \in DOMAIN results : results[i].kind = "raise"}
    IN  IF bad # {} THEN Raise(results[SetMin(bad)].exc)
        ELSE Ok([i \in DOMAIN results |-> results[i].value])

RECURSIVE RemoveAll(_, _)
\* str.replace(pat, ""), for a non-empty pat
RemoveAll(s, pat) ==
    IF Len(s) < Len(pat) THEN s
    ELSE IF SubSeq(s, 1, Len(pat)) = pat
         THEN RemoveAll(SubSeq(s, Len(pat) + 1, Len(s)), pat)
         ELSE <<s[1]>> \o RemoveAll(Tail(s), pat)

RECURSIVE LStrip(_)
LStrip(s) == IF s # <<>> /\ s[1] = " " THEN LStrip(Tail(s)) ELSE s

RECURSIVE RStrip(_)
RStrip(s) ==
    IF s # <<>> /\ s[Len(s)] = " " THEN RStrip(SubSeq(s, 1, Len(s) - 1)) ELSE s

\* str.strip()
Strip(s) == LStrip(RStrip(s))

DigitValue(c) == (CHOOSE i \in DOMAIN Digits : Digits[i] = c) - 1

IsDigit(c) == \E i \in DOMAIN Digits : Digits[i] = c

RECURSIVE DigitsValue(_)
DigitsValue(s) ==
    IF s = <<>> THEN 0
    ELSE DigitsValue(SubSeq(s, 1, Len(s) - 1)) * 10 + DigitValue(s[Len(s)])

\* int(s), as astype("Int64") applies it to each string
ParseInt(s) ==
    LET t == Strip(s)
        signed == t # <<>> /\ t[1] \in {"-", "+"}
        body == IF signed THEN Tail(t) ELSE t
    IN  IF body = <<>> \/ \E i \in DOMAIN body : ~IsDigit(body[i])
        THEN Raise("ValueError")
        ELSE Ok(Int64(IF signed /\ t[1] = "-" THEN 0 - DigitsValue(body)
                      ELSE DigitsValue(body)))

\* data["term"].str.replace("months", "").str.strip().astype("Int64")
ConvertTermCell(c) ==
    IF IsNA(c) THEN Ok(NA)
    ELSE ParseInt(Strip(RemoveAll(c.v, <<"m","o","n","t","h","s">>)))

\* data[col_name].map(_get_iso_date_string, na_action="ignore").astype("string")
ConvertDateCell(c) ==
    IF IsNA(c) THEN Ok(NA)
    ELSE LET r == get_iso_date_string(c.v)
         IN  IF r.kind = "raise" THEN r ELSE Ok(Str(r.value))

\* A mutant of BoolMapper: a mapper that takes every code but Y for False
BoolMapper_DefaultFalse(s) == IF s = <<"Y">> THEN Bool(TRUE) ELSE Bool(FALSE)

\* mapper = {"N": False, "Y": True}
BoolMapper(s) ==
    IF s = <<"N">> THEN Bool(FALSE)
    ELSE IF s = <<"Y">> THEN Bool(TRUE)
    ELSE NA

\* data[col_name].str.upper().map(mapper, na_action="ignore").astype("boolean"):
\* Series.map with a dictionary gives NaN for a key the dictionary lacks, and
\* astype("boolean") turns NaN into NA.
ConvertBooleanCell(c) == IF IsNA(c) THEN NA ELSE BoolMapper(Upper(c.v))

\* The state of a conversion pass: the dataframe so far and the exception raised.
Pass(f, e) == [frame |-> f, exc |-> e]

ConvertTimeIntervals(p) ==
    LET r == Collect([i \in DOMAIN p.frame |-> ConvertTermCell(p.frame[i]["term"])])
    IN  IF r.kind = "raise" THEN Pass(p.frame, r.exc)
        ELSE Pass(SetCol(p.frame, "term", r.value), "none")

RECURSIVE ConvertDates(_, _)
\* for col_name in ACC_LOANS_DATE_COLUMNS, from the k-th column on
ConvertDates(p, k) ==
    IF k > Len(ACC_LOANS_DATE_COLUMNS) THEN p
    ELSE LET c == ACC_LOANS_DATE_COLUMNS[k]
             r == Collect([i \in DOMAIN p.frame |-> ConvertDateCell(p.frame[i][c])])
         IN  IF r.kind = "raise" THEN Pass(p.frame, r.exc)
             ELSE ConvertDates(Pass(SetCol(p.frame, c, r.value), "none"), k + 1)

RECURSIVE ConvertBooleans(_, _)
\* for col_name in ACC_LOANS_BOOLEAN_COLUMNS, from the k-th column on
ConvertBooleans(p, k) ==
    IF k > Len(ACC_LOANS_BOOLEAN_COLUMNS) THEN p
    ELSE LET c == ACC_LOANS_BOOLEAN_COLUMNS[k]
             col == [i \in DOMAIN p.frame |-> ConvertBooleanCell(p.frame[i][c])]
         IN  ConvertBooleans(Pass(SetCol(p.frame, c, col), "none"), k + 1)

\* The three conversion steps in the order of the code; a step that raises ends
\* the call, and the columns assigned before it stay assigned.
convert_acc_loan_data(f, conversions) ==
    LET p0 == Pass(f, "none")
        p1 == IF "time_intervals" \in conversions THEN ConvertTimeIntervals(p0) ELSE p0
        p2 == IF p1.exc = "none" /\ "dates" \in conversions
              THEN ConvertDates(p1, 1) ELSE p1
        p3 == IF p2.exc = "none" /\ "booleans" \in conversions
              THEN ConvertBooleans(p2, 1) ELSE p2
    IN  p3

(***************************************************************************)
(* The dataframes a session loads                                          *)
(***************************************************************************)
\* The number of rows of the largest dataframe.
MaxRows == 2

\* rows is one of the sequences of 1..MaxRows rows whose first row ranges over
\* First and whose other rows range over Extra.
RowsOf(rows, First, Extra) ==
    \E n \in 1..MaxRows : \E r \in First : \E t \in [1..(n - 1) -> Extra] :
        rows = <<r>> \o t

AbbrCapitalized ==
    << <<"J","a","n">>, <<"F","e","b">>, <<"M","a","r">>, <<"A","p","r">>,
       <<"M","a","y">>, <<"J","u","n">>, <<"J","u","l">>, <<"A","u","g">>,
       <<"S","e","p">>, <<"O","c","t">>, <<"N","o","v">>, <<"D","e","c">> >>

AbbrUpperCase ==
    << <<"J","A","N">>, <<"F","E","B">>, <<"M","A","R">>, <<"A","P","R">>,
       <<"M","A","Y">>, <<"J","U","N">>, <<"J","U","L">>, <<"A","U","G">>,
       <<"S","E","P">>, <<"O","C","T">>, <<"N","O","V">>, <<"D","E","C">> >>

AbbrMixedCase ==
    << <<"j","a","n">>, <<"f","E","b">>, <<"m","a","R">>, <<"a","P","R">>,
       <<"m","a","y">>, <<"j","U","n">>, <<"j","u","l">>, <<"a","U","G">>,
       <<"s","e","p">>, <<"o","c","T">>, <<"n","O","v">>, <<"d","E","C">> >>

RawYears == {<<"2","0","1","5">>, <<"2","0","0","7">>}

\* Raw dates in the format of the raw data, Mon-YYYY
RawDateStrings ==
    {AbbrCapitalized[m] \o <<"-">> \o y : m \in 1..12, y \in RawYears}
    \cup {AbbrUpperCase[m] \o <<"-">> \o <<"2","0","1","5">> : m \in 1..12}
    \cup {AbbrMixedCase[m] \o <<"-">> \o <<"2","0","0","7">> : m \in 1..12}

\* Strings that are not in the format of the raw data
MalformedDateStrings ==
    {<<"F","o","o","-","2","0","1","5">>,
     <<"J","u","n","e","-","2","0","1","5">>,
     <<"J","u","n","2","0","1","5">>,
     <<"J","u","n","-","2","0","-","1","5">>,
     <<>>,
     <<"-">>,
     <<"J","u","n"," ","2","0","1","5">>,
     <<"2","0","1","5","-","0","6">>,
     <<"J","u","-","2","0","1","5">>,
     <<" ","J","u","n","-","2","0","1","5">>,
     <<"J","-","u","-","n">>,
     <<"-","-">>}

DateCells == {NA} \cup {Str(s) : s \in RawDateStrings \cup MalformedDateStrings}

FewDateCells ==
    {NA, Str(<<"D","e","c","-","2","0","0","7">>), Str(<<"F","o","o","-","2","0","1","5">>),
     Str(<<"J","u","n","2","0","1","5">>)}

TermCells ==
    {NA, Str(<<" ","3","6"," ","m","o","n","t","h","s">>),
     Str(<<" ","6","0"," ","m","o","n","t","h","s">>), Str(<<"3","6"," ","m","o","s">>)}

BooleanCells ==
    {NA, Str(<<"Y">>), Str(<<"N">>), Str(<<"y">>), Str(<<"n">>), Str(<<"X">>),
     Str(<<"y","e","s">>), Str(<<>>)}

ConvertColumns ==
    {"term"} \cup {ACC_LOANS_DATE_COLUMNS[k] : k \in DOMAIN ACC_LOANS_DATE_COLUMNS}
    \cup {ACC_LOANS_BOOLEAN_COLUMNS[k] : k \in DOMAIN ACC_LOANS_BOOLEAN_COLUMNS}

\* A raw row: its term, its issue date, its settlement date and its payment-plan
\* flag are given; the other date columns are empty and the other flags are N.
RawRow(t, d, sd, b) ==
    [c \in ConvertColumns |->
        IF c = "term" THEN t
        ELSE IF c = "issue_d" THEN d
        ELSE IF c = "settlement_date" THEN sd
        ELSE IF c = "pymnt_plan" THEN b
        ELSE IF c \in {"hardship_flag", "debt_settlement_flag"} THEN Str(<<"N">>)
        ELSE NA]

RawFirstRows ==
    {RawRow(Str(<<" ","3","6"," ","m","o","n","t","h","s">>), d, NA, Str(<<"N">>)) :
        d \in DateCells}
    \cup {RawRow(t, d, sd, b) : t \in TermCells, d \in FewDateCells,
                                sd \in {NA, Str(<<"J","u","n","e","-","2","0","1","5">>)},
                                b \in BooleanCells}

RawExtraRows ==
    {RawRow(Str(<<" ","6","0"," ","m","o","n","t","h","s">>), NA, NA, NA),
     RawRow(NA, Str(<<"j","U","n","-","2","0","1","5">>), NA, Str(<<"y">>)),
     RawRow(Str(<<"3","6"," ","m","o","s">>), Str(<<"J","u","n","2","0","1","5">>), NA,
            Str(<<"X">>)),
     RawRow(NA, Str(<<"F","o","o","-","2","0","1","5">>), NA, Str(<<"N">>))}

(***************************************************************************)
(* The conversion session: a raw dataframe is loaded, and one call follows *)
(***************************************************************************)
\* database.py as imported: the engine of line 12, and no database file yet
DbIdle ==
    /\ fileExists = FALSE
    /\ engine = 1
    /\ created = 1
    /\ store = [n \in TableNames |-> NoTable]
    /\ pc = "idle"
    /\ pending = <<>>
    /\ unlinkFailed = FALSE

\* The session has loaded arg and has called nothing yet
Loaded ==
    /\ op = [name |-> "load"]
    /\ frame = arg
    /\ out = NoOutcome

InitConvert == RowsOf(arg, RawFirstRows, RawExtraRows) /\ Loaded /\ DbIdle

\* _get_iso_date_string(element), for a non-null element of a date column
GetIsoDateString ==
    /\ op.name = "load"
    /\ \E i \in DOMAIN frame, k \in DOMAIN ACC_LOANS_DATE_COLUMNS :
          LET c == frame[i][ACC_LOANS_DATE_COLUMNS[k]]
          IN  /\ ~IsNA(c)
              /\ op' = [name |-> "_get_iso_date_string", element |-> c.v]
              /\ out' = get_iso_date_string(c.v)
    /\ UNCHANGED <<frameVars, dbVars>>

\* convert_acc_loan_data(data, conversions)
ConvertAccLoanData ==
    /\ op.name = "load"
    /\ \E conversions \in SUBSET ACC_LOANS_CONVERSIONS :
          LET p == convert_acc_loan_data(frame, conversions)
          IN  /\ op' = [name |-> "convert_acc_loan_data", conversions |-> conversions]
              /\ frame' = p.frame
              /\ out' = IF p.exc = "none" THEN Ok(p.frame) ELSE Raise(p.exc)
    /\ UNCHANGED <<arg, dbVars>>

NextConvert == GetIsoDateString \/ ConvertAccLoanData

SpecConvert == InitConvert /\ [][NextConvert]_vars

(***************************************************************************)
(* data_cleaning: filter_acc_loan_data                                     *)
(*                                                                         *)
(* The columns have pandas' nullable dtypes, so a comparison with a null   *)
(* cell is NA and &, | and ~ follow Kleene's three-valued logic; indexing  *)
(* a dataframe with a mask takes an NA of the mask for False.              *)
(***************************************************************************)
Num(n) == [t |-> "num", v |-> n]

K(b) == IF b THEN "true" ELSE "false"

KAnd(a, b) ==
    IF a = "false" \/ b = "false" THEN "false"
    ELSE IF a = "na" \/ b = "na" THEN "na"
    ELSE "true"

KOr(a, b) ==
    IF a = "true" \/ b = "true" THEN "true"
    ELSE IF a = "na" \/ b = "na" THEN "na"
    ELSE "false"

KNot(a) == IF a = "na" THEN "na" ELSE K(a = "false")

\* The characters of the model in the order of their code points
CodePointOrder ==
    <<" ", "-", ".">> \o Digits \o <<":">> \o UpperChars \o LowerChars

Ord(c) == CHOOSE i \in DOMAIN CodePointOrder : CodePointOrder[i] = c

RECURSIVE StrLess(_, _)
\* a < b for Python strings
StrLess(a, b) ==
    IF b = <<>> THEN FALSE
    ELSE IF a = <<>> THEN TRUE
    ELSE IF a[1] # b[1] THEN Ord(a[1]) < Ord(b[1])
    ELSE StrLess(Tail(a), Tail(b))

\* series >= value, series != value, series == value, series < value
KStrGE(c, s) == IF IsNA(c) THEN "na" ELSE K(~StrLess(c.v, s))

KStrNE(c, s) == IF IsNA(c) THEN "na" ELSE K(c.v # s)

KStrEQ(c, s) == IF IsNA(c) THEN "na" ELSE K(c.v = s)

KNumLT(c, n) == IF IsNA(c) THEN "na" ELSE K(c.v < n)

\* series.notna(), series.str.startswith(p)
KNotNA(c) == K(~IsNA(c))

KStartsWith(c, p) == IF IsNA(c) THEN "na" ELSE K(StartsWith(c.v, p))

DoesNotMeet == <<"D","o","e","s"," ","n","o","t"," ","m","e","e","t">>

\* A mutant of IntRateIsAnomalous: <= 9 in place of < 9 for grade D
IntRateIsAnomalous_AtMost9(r) ==
    KOr(KAnd(KStrNE(r["grade"], <<"A">>), KNumLT(r["int_rate"], 7)),
        KAnd(KStrEQ(r["grade"], <<"D">>), KNumLT(r["int_rate"], 10)))

\* int_rate_is_anomalous, for one row
IntRateIsAnomalous(r) ==
    KOr(KAnd(KStrNE(r["grade"], <<"A">>), KNumLT(r["int_rate"], 7)),
        KAnd(KStrEQ(r["grade"], <<"D">>), KNumLT(r["int_rate"], 9)))

\* bool_index, for one row
BoolIndex(r) ==
    KAnd(KAnd(KAnd(KNotNA(r["loan_status"]),
                   KNot(KStartsWith(r["loan_status"], DoesNotMeet))),
              KStrGE(r["issue_d"], <<"2","0","1","2","-","0","1">>)),
         KNot(IntRateIsAnomalous(r)))

RECURSIVE SelectRows(_, _)
\* data[mask]
SelectRows(f, mask) ==
    IF f = <<>> THEN <<>>
    ELSE (IF mask[1] = "true" THEN <<f[1]>> ELSE <<>>)
         \o SelectRows(Tail(f), Tail(mask))

filter_acc_loan_data(f) == SelectRows(f, [i \in DOMAIN f |-> BoolIndex(f[i])])

(***************************************************************************)
(* The filtering session: a converted dataframe, and one call              *)
(***************************************************************************)
StatusCells ==
    {NA,
     Str(<<"F","u","l","l","y"," ","P","a","i","d">>),
     Str(<<"D","o","e","s"," ","n","o","t"," ","m","e","e","t"," ","t","h","e"," ","c","r","e","d","i","t"," ","p","o","l","i","c","y","."," ","S","t","a","t","u","s",":","F","u","l","l","y"," ","P","a","i","d">>),
     Str(<<"D","o","e","s"," ","n","o","t"," ","m","e","e","t">>),
     Str(<<"d","o","e","s"," ","n","o","t"," ","m","e","e","t">>),
     Str(<<"D","o","e","s"," ","n","o","t">>)}

IssueCells ==
    {NA,
     Str(<<"2","0","1","1","-","1","2">>),
     Str(<<"2","0","1","2","-","0","1">>),
     Str(<<"2","0","1","5","-","0","6">>),
     Str(<<"2","0","0","7","-","1","2">>),
     Str(<<"J","u","n","-","2","0","1","5">>)}

GradeCells == {NA, Str(<<"A">>), Str(<<"B">>), Str(<<"D">>)}

IntRateCells == {NA, Num(6), Num(7), Num(8), Num(9)}

LoanRow(st, d, g, r) == [loan_status |-> st, issue_d |-> d, grade |-> g, int_rate |-> r]

LoanFirstRows ==
    {LoanRow(st, d, g, r) : st \in StatusCells, d \in IssueCells, g \in GradeCells,
                            r \in IntRateCells}

FullyPaid == Str(<<"F","u","l","l","y"," ","P","a","i","d">>)

LoanExtraRows ==
    {LoanRow(FullyPaid, Str(<<"2","0","1","5","-","0","6">>), Str(<<"D">>), Num(8)),
     LoanRow(FullyPaid, Str(<<"2","0","1","5","-","0","6">>), Str(<<"D">>), Num(9)),
     LoanRow(FullyPaid, Str(<<"2","0","1","1","-","1","2">>), Str(<<"A">>), Num(6)),
     LoanRow(FullyPaid, Str(<<"2","0","1","2","-","0","1">>), Str(<<"A">>), Num(6)),
     LoanRow(NA, NA, NA, NA)}

InitFilter == RowsOf(arg, LoanFirstRows, LoanExtraRows) /\ Loaded /\ DbIdle

\* filter_acc_loan_data(data)
FilterAccLoanData ==
    /\ op.name = "load"
    /\ op' = [name |-> "filter_acc_loan_data"]
    /\ out' = Ok(filter_acc_loan_data(frame))
    /\ UNCHANGED <<frameVars, dbVars>>

NextFilter == FilterAccLoanData

SpecFilter == InitFilter /\ [][NextFilter]_vars

(***************************************************************************)
(* derived_features: get_duration and get_annualized_return                *)
(***************************************************************************)
\* pd.to_datetime(s, format="ISO8601") followed by .dt.to_period(freq="M"), for the
\* year-month form YYYY-MM: the period as a count of months, or ValueError.
ToPeriod(s) ==
    IF /\ Len(s) = 7
       /\ s[5] = "-"
       /\ \A i \in {1, 2, 3, 4, 6, 7} : IsDigit(s[i])
       /\ DigitsValue(SubSeq(s, 6, 7)) \in 1..12
    THEN Ok(DigitsValue(SubSeq(s, 1, 4)) * 12 + DigitsValue(SubSeq(s, 6, 7)) - 1)
    ELSE Raise("ValueError")

\* A mutant of PeriodDifference: start - end in place of end - start
PeriodDifference_Swapped(endPeriod, startPeriod) == startPeriod - endPeriod

\* to_period(data[end]) - to_period(data[start]) and the offset's n, for one row
PeriodDifference(endPeriod, startPeriod) == endPeriod - startPeriod

\* The to_period of a cell: NaT for a null cell
CellToPeriod(c) ==
    IF IsNA(c) THEN Ok(NA)
    ELSE LET r == ToPeriod(c.v)
         IN  IF r.kind = "raise" THEN r ELSE Ok(Num(r.value))

\* get_duration(data, "start", "end"): to_period converts the end column, then the
\* start column, and the differences are cast to Int64.
get_duration(f) ==
    LET ends == Collect([i \in DOMAIN f |-> CellToPeriod(f[i]["end"])])
        starts == Collect([i \in DOMAIN f |-> CellToPeriod(f[i]["start"])])
    IN  IF ends.kind = "raise" THEN ends
        ELSE IF starts.kind = "raise" THEN starts
        ELSE Ok([i \in DOMAIN f |->
                    IF IsNA(ends.value[i]) \/ IsNA(starts.value[i]) THEN NA
                    ELSE Int64(PeriodDifference(ends.value[i].v, starts.value[i].v))])

\* A mutant of NumberOfMonths: val >= 0 in place of val >= 1
NumberOfMonths_FromZero(c) ==
    IF IsNA(c) THEN Raise("TypeError")
    ELSE Ok(IF c.v >= 0 THEN c.v ELSE 1)

\* lambda val: val if val >= 1 else 1; the truth value of pd.NA >= 1 is a TypeError
NumberOfMonths(c) ==
    IF IsNA(c) THEN Raise("TypeError")
    ELSE Ok(IF c.v >= 1 THEN c.v ELSE 1)

\* (1 + profit) ** (12 / number_of_months) - 1 as the expression it is: the base in
\* hundredths and the exponent as the quotient of 12 by the number of months.
\* Equal expressions are equal floating-point results.
Annualized(profit, months) ==
    IF IsNA(profit) THEN NA
    ELSE [t |-> "return", base |-> 100 + profit.v, expNum |-> 12, expDen |-> months]

\* get_annualized_return(data, "profit", "duration")
get_annualized_return(f) ==
    LET months == Collect([i \in DOMAIN f |-> NumberOfMonths(f[i]["duration"])])
    IN  IF months.kind = "raise" THEN months
        ELSE Ok([i \in DOMAIN f |-> Annualized(f[i]["profit"], months.value[i])])

(***************************************************************************)
(* The derived-feature session: a dataframe of periods or of profits and   *)
(* durations, and one call                                                 *)
(***************************************************************************)
\* The years of the loaded periods, as written and as numbers
PeriodYears ==
    {[s |-> <<"2","0","1","4">>, n |-> 2014], [s |-> <<"2","0","1","5">>, n |-> 2015],
     [s |-> <<"2","0","1","6">>, n |-> 2016]}

\* The two-digit labels of the months
MonthLabels ==
    << <<"0","1">>, <<"0","2">>, <<"0","3">>, <<"0","4">>, <<"0","5">>, <<"0","6">>,
       <<"0","7">>, <<"0","8">>, <<"0","9">>, <<"1","0">>, <<"1","1">>, <<"1","2">> >>

YearMonth(y, m) == y.s \o <<"-">> \o MonthLabels[m]

PeriodCells ==
    {NA} \cup {Str(YearMonth(y, m)) : y \in PeriodYears, m \in 1..12}
    \cup {Str(<<"J","u","n","-","2","0","1","5">>), Str(<<"2","0","1","5","-","1","3">>)}

PeriodRow(a, b) == [start |-> a, end |-> b]

PeriodFirstRows == {PeriodRow(a, b) : a \in PeriodCells, b \in PeriodCells}

PeriodExtraRows ==
    {PeriodRow(Str(<<"2","0","1","5","-","1","2">>), Str(<<"2","0","1","6","-","0","6">>)),
     PeriodRow(NA, Str(<<"2","0","1","6","-","0","6">>)),
     PeriodRow(Str(<<"2","0","1","6","-","0","6">>), NA),
     PeriodRow(Str(<<"J","u","n","-","2","0","1","5">>), Str(<<"2","0","1","5","-","1","3">>))}

\* The longest duration of a loaded row, in months
MaxMonths == 4

DurationCells == {NA} \cup {Int64(n) : n \in (0 - MaxMonths)..MaxMonths}

\* Profits in hundredths of the principal
ProfitCells == {NA, Num(0 - 100), Num(0 - 5), Num(0), Num(4)}

ReturnRow(p, d) == [profit |-> p, duration |-> d]

ReturnFirstRows == {ReturnRow(p, d) : p \in ProfitCells, d \in DurationCells}

ReturnExtraRows ==
    {ReturnRow(Num(4), Int64(0)), ReturnRow(Num(4), Int64(1)),
     ReturnRow(Num(4), Int64(0 - 1)), ReturnRow(NA, Int64(3))}

InitDerived ==
    /\ \/ RowsOf(arg, PeriodFirstRows, PeriodExtraRows)
       \/ RowsOf(arg, ReturnFirstRows, ReturnExtraRows)
    /\ Loaded
    /\ DbIdle

\* get_duration(data, start, end)
GetDuration ==
    /\ op.name = "load"
    /\ "start" \in DOMAIN frame[1]
    /\ op' = [name |-> "get_duration"]
    /\ out' = get_duration(frame)
    /\ UNCHANGED <<frameVars, dbVars>>

\* get_annualized_return(data, profit, duration)
GetAnnualizedReturn ==
    /\ op.name = "load"
    /\ "duration" \in DOMAIN frame[1]
    /\ op' = [name |-> "get_annualized_return"]
    /\ out' = get_annualized_return(frame)
    /\ UNCHANGED <<frameVars, dbVars>>

NextDerived == GetDuration \/ GetAnnualizedReturn

SpecDerived == InitDerived /\ [][NextDerived]_vars

(***************************************************************************)
(* database: the dataframes written to the store and read back             *)
(*                                                                         *)
(* A dataframe of the store session is a record of its index name ("" for  *)
(* the default RangeIndex), its column names in order, the dtype of each   *)
(* column and its rows; a named index is a field of the rows that is not   *)
(* among the columns.  An integer is v, or 2^53 + v when it is tagged      *)
(* above; a float is v halves, or 2^53 + v when it is tagged above.        *)
(***************************************************************************)
Flt(h) == [t |-> "float", v |-> h]

IntAbove(n) == [t |-> "int", v |-> n, above |-> "2^53"]

FltAbove(n) == [t |-> "float", v |-> n, above |-> "2^53"]

IsAbove(c) == "above" \in DOMAIN c

DataFrame(index, columns, dtypes, rows) ==
    [index |-> index, columns |-> columns, dtypes |-> dtypes, rows |-> rows]

ColumnSet(df) == {df.columns[k] : k \in DOMAIN df.columns}

\* float(n) in IEEE double precision: exact up to 2^53; between 2^53 and 2^54 only
\* the even integers exist, and an odd one is rounded to the neighbour whose
\* mantissa is even.
FloatOfInt(c) ==
    IF ~IsAbove(c) THEN Flt(2 * c.v)
    ELSE IF c.v % 2 = 0 THEN FltAbove(c.v)
    ELSE IF ((c.v - 1) \div 2) % 2 = 0 THEN FltAbove(c.v - 1)
    ELSE FltAbove(c.v + 1)

\* DataFrame.to_sql writes True and False as the integers 1 and 0, NA as NULL
SqlValue(c) ==
    IF c.t = "bool" THEN Int64(IF c.v THEN 1 ELSE 0) ELSE c

\* df.to_sql(name, con=con, index=False): the table of the columns of df; the index
\* is not written.
to_sql(df) ==
    [exists |-> TRUE,
     columns |-> df.columns,
     rows |-> [i \in DOMAIN df.rows |-> [c \in ColumnSet(df) |-> SqlValue(df.rows[i][c])]]]

\* The dtype pandas infers for a column of a query result (coerce_float=True):
\* integers with a NULL among them become float64.
InferredDtype(values) ==
    LET present == {values[i] : i \in {j \in DOMAIN values : ~IsNA(values[j])}}
    IN  IF present = {} THEN "object"
        ELSE IF \A c \in present : c.t = "str" THEN "object"
        ELSE IF \A c \in present : c.t = "int"
             THEN (IF \E i \in DOMAIN values : IsNA(values[i]) THEN "float64" ELSE "int64")
        ELSE "float64"

ReadValue(c, dtype) ==
    IF IsNA(c) THEN NA
    ELSE IF dtype = "float64" /\ c.t = "int" THEN FloatOfInt(c)
    ELSE c

\* read_sql_query("SELECT * FROM table", con): the dataframe of the table
read_sql_query(table) ==
    LET cs == {table.columns[k] : k \in DOMAIN table.columns}
        dt == [c \in cs |-> InferredDtype([i \in DOMAIN table.rows |-> table.rows[i][c]])]
    IN  DataFrame("", table.columns, dt,
                  [i \in DOMAIN table.rows |->
                      [c \in cs |-> ReadValue(table.rows[i][c], dt[c])]])

\* The cast of one value by Series.astype(dtype)
CastValue(c, dtype) ==
    IF IsNA(c) THEN Ok(NA)
    ELSE IF dtype = "string" THEN
        (IF c.t = "str" THEN Ok(c) ELSE Ok([t |-> "str", repr |-> c]))
    ELSE IF dtype = "Int64" THEN
        (IF c.t = "int" THEN Ok(c)
         ELSE IF c.t = "float" /\ IsAbove(c) THEN Ok(IntAbove(c.v))
         ELSE IF c.t = "float" /\ c.v % 2 = 0 THEN Ok(Int64(c.v \div 2))
         ELSE IF c.t = "float" THEN Raise("TypeError")
         ELSE Raise("ValueError"))
    ELSE IF dtype = "Float64" THEN
        (IF c.t = "float" THEN Ok(c)
         ELSE IF c.t = "int" THEN Ok(FloatOfInt(c))
         ELSE Raise("ValueError"))
    ELSE IF dtype = "boolean" THEN
        (IF c.t = "int" /\ ~IsAbove(c) /\ c.v \in {0, 1} THEN Ok(Bool(c.v = 1))
         ELSE IF c.t = "float" /\ ~IsAbove(c) /\ c.v \in {0, 2} THEN Ok(Bool(c.v = 2))
         ELSE IF c.t = "bool" THEN Ok(c)
         ELSE Raise("TypeError"))
    ELSE Raise("TypeError")

RECURSIVE AsTypeFrom(_, _, _)
\* loan_data.astype(dtypes), column by column from the k-th on: KeyError for a key
\* of dtypes that is no column, the error of the first cast that fails
AsTypeFrom(df, dtypes, k) ==
    IF DOMAIN dtypes \ ColumnSet(df) # {} THEN Raise("KeyError")
    ELSE IF k > Len(df.columns) THEN Ok(df)
    ELSE LET c == df.columns[k]
         IN  IF c \notin DOMAIN dtypes THEN AsTypeFrom(df, dtypes, k + 1)
             ELSE LET r == Collect([i \in DOMAIN df.rows |->
                                      CastValue(df.rows[i][c], dtypes[c])])
                  IN  IF r.kind = "raise" THEN r
                      ELSE AsTypeFrom(
                             [df EXCEPT !.dtypes[c] = dtypes[c],
                                        !.rows = [i \in DOMAIN df.rows |->
                                                    [df.rows[i] EXCEPT ![c] = r.value[i]]]],
                             dtypes, k + 1)

\* A mutant of astype: the dtypes are not re-applied
astype_Skipped(df, dtypes) == Ok(df)

\* loan_data.astype(dtypes)
astype(df, dtypes) == AsTypeFrom(df, dtypes, 1)

\* df.set_index(name)
set_index(df, name) ==
    IF name \notin ColumnSet(df) THEN Raise("KeyError")
    ELSE Ok([df EXCEPT !.index = name,
                       !.columns = SelectSeq(df.columns, LAMBDA c : c # name)])

\* df.reset_index(): a named index becomes the first column
reset_index(df) ==
    IF df.index = "" THEN df
    ELSE [df EXCEPT !.index = "", !.columns = <<df.index>> \o df.columns]

\* metadata["data type"].to_dict(): from the index to the data type
DataTypeDict(df) ==
    [n \in {df.rows[i][df.index] .v : i \in DOMAIN df.rows} |->
        (LET i == CHOOSE j \in DOMAIN df.rows : df.rows[j][df.index].v = n
         IN  df.rows[i]["data type"].v)]

(***************************************************************************)
(* data_cleaning: get_loan_metadata                                        *)
(***************************************************************************)
\* feature_descriptions: a description for some of the columns
FeatureDescriptions ==
    [id |-> Str("loan identifier"), grade |-> Str("assigned loan grade")]

\* get_loan_metadata(loan_data, feature_descriptions): one row for each column of
\* loan_data, in the index named "column name"; the column "data type" holds
\* str(dtype), and with feature descriptions the left join adds "description".
get_loan_metadata(df, withDescriptions) ==
    LET cols == IF withDescriptions THEN <<"data type", "description">>
                ELSE <<"data type">>
        fields == {"column name"} \cup {cols[k] : k \in DOMAIN cols}
    IN  DataFrame("column name", cols, [c \in fields |-> "object"],
                  [k \in DOMAIN df.columns |->
                      [c \in fields |->
                          IF c = "column name" THEN Str(df.columns[k])
                          ELSE IF c = "data type" THEN Str(df.dtypes[df.columns[k]])
                          ELSE IF df.columns[k] \in DOMAIN FeatureDescriptions
                               THEN FeatureDescriptions[df.columns[k]]
                               ELSE NA]])

(***************************************************************************)
(* database: the engine handle and the operations on the store             *)
(***************************************************************************)
\* DATABASE_ENGINE = None
None == 0

\* A mutant of create_engine: no engine is made
create_engine_None(n) == None

\* create_engine(url=...): the identity of the n-th engine
create_engine(n) == n

MissingEngineMessage ==
    "Unable to add database tables because the engine is not instantiated."

RaiseWith(e, m) == [kind |-> "raise", exc |-> e, msg |-> m]

\* A mutant of MissingEngine: the check is skipped
MissingEngine_Skipped(e) == FALSE

\* _raise_for_missing_engine: whether it raises
MissingEngine(e) == e = None

\* What a call finds before it touches the store: the RuntimeError of
\* _raise_for_missing_engine, the AttributeError of None.connect(), or a connection.
Connect(e) ==
    IF MissingEngine(e) THEN RaiseWith("RuntimeError", MissingEngineMessage)
    ELSE IF e = None THEN Raise("AttributeError")
    ELSE Ok("connection")

RECURSIVE WriteTables(_, _, _, _)
\* for name, df in tables.items(): df.to_sql(name, con=con, index=False, **kwargs),
\* from the k-th table on; to_sql raises ValueError for a table that exists unless
\* if_exists="replace".
WriteTables(st, tables, k, ifExists) ==
    IF k > Len(tables) THEN [store |-> st, out |-> Ok(NA)]
    ELSE IF st[tables[k].name].exists /\ ifExists = "fail"
         THEN [store |-> st, out |-> Raise("ValueError")]
         ELSE WriteTables([st EXCEPT ![tables[k].name] = to_sql(tables[k].df)],
                          tables, k + 1, ifExists)

\* The store after add_tables: the tables written, and when a to_sql raised, the
\* tables written before it are there if to_sql committed each table, and are not
\* if the commit was left to the con.commit() that was never reached.
StoreAfter(st, written, eachCommitted) ==
    IF written.out.kind = "ok" \/ eachCommitted THEN written.store ELSE st

\* SELECT EXISTS (... WHERE type = 'table' AND name = :table_name)
TableExistsQuery(st, name) == name \in DOMAIN st /\ st[name].exists

\* _perform_query(SQL_STRINGS[name]) on a connection: the dataframe of the table,
\* or the OperationalError of a table that is not there
PerformQuery(st, name) ==
    IF ~st[name].exists THEN Raise("OperationalError")
    ELSE Ok(read_sql_query(st[name]))

\* get_loan_metadata() on a connection: the query, then set_index("column name")
LoanMetadataQuery(st) ==
    LET q == PerformQuery(st, "loan_metadata")
    IN  IF q.kind = "raise" THEN q ELSE set_index(q.value, "column name")

\* get_loan_data() on a connection: the metadata, its "data type" column as a
\* dictionary, the loan_data query and astype(dtypes)
LoanDataQuery(st) ==
    LET meta == LoanMetadataQuery(st)
    IN  IF meta.kind = "raise" THEN meta
        ELSE IF "data type" \notin ColumnSet(meta.value) THEN Raise("KeyError")
        ELSE LET q == PerformQuery(st, "loan_data")
             IN  IF q.kind = "raise" THEN q
                 ELSE astype(q.value, DataTypeDict(meta.value))

\* A mutant of IsYes: an answer that starts like yes is taken for yes
IsYes_Lenient(response) == response \in {"yes", "y", "Yes", "YES"}

\* response == "yes"
IsYes(response) == response = "yes"

(***************************************************************************)
(* The store session: a dataset is in memory, and create_database,         *)
(* add_tables, get_loan_data, get_loan_metadata and table_exists are       *)
(* called in any order.  create_database waits at input() for the answer   *)
(* and at DATABASE_PATH.unlink() for the file system.                      *)
(***************************************************************************)
\* The most engines a session makes
MaxEngines == 3

StoreColumns == <<"id", "int_rate", "grade", "pymnt_plan">>

StoreDtypes ==
    [id |-> "Int64", int_rate |-> "Float64", grade |-> "string", pymnt_plan |-> "boolean"]

StoreRow(i, r, g, b) == [id |-> i, int_rate |-> r, grade |-> g, pymnt_plan |-> b]

StoreRows ==
    {StoreRow(Int64(7), Flt(27), Str("A"), Bool(TRUE)),
     StoreRow(NA, NA, NA, NA),
     StoreRow(IntAbove(1), Flt(4), Str("B"), Bool(FALSE)),
     StoreRow(IntAbove(2), NA, NA, Bool(TRUE))}

Table(name, df) == [name |-> name, df |-> df]

\* The dictionaries of tables a session passes: the dataset, its metadata as
\* get_loan_metadata returns it or with the index reset to a column, in either order
TableChoices(df) ==
    LET data == Table("loan_data", df)
        meta == Table("loan_metadata", get_loan_metadata(df, FALSE))
        metaReset == Table("loan_metadata", reset_index(get_loan_metadata(df, FALSE)))
        metaDescribed == Table("loan_metadata", reset_index(get_loan_metadata(df, TRUE)))
    IN  {<<>>, <<data>>, <<metaReset>>, <<data, meta>>, <<data, metaReset>>,
         <<data, metaDescribed>>, <<metaReset, data>>}

Responses == {"yes", "no", "y", "Yes", "YES", ""}

InitStore ==
    /\ \E n \in 1..MaxRows : \E rows \in [1..n -> StoreRows] :
          arg = DataFrame("", StoreColumns, StoreDtypes, rows)
    /\ Loaded
    /\ DbIdle

Call(name, step, response, connected) ==
    [name |-> name, step |-> step, response |-> response, connected |-> connected]

\* add_tables(tables, **kwargs), as the call named name
AddTablesBody(name, response, tables, ifExists) ==
    LET c == Connect(engine)
    IN  IF c.kind = "raise"
        THEN /\ out' = c
             /\ op' = Call(name, "done", response, FALSE)
             /\ UNCHANGED <<fileExists, store>>
        ELSE \E eachCommitted \in BOOLEAN :
                LET w == WriteTables(store, tables, 1, ifExists)
                IN  /\ out' = w.out
                    /\ op' = Call(name, "done", response, TRUE)
                    /\ fileExists' = TRUE
                    /\ store' = StoreAfter(store, w, eachCommitted)

\* create_database(tables) up to input(), or all of it when there is no file
CreateDatabase ==
    /\ pc = "idle"
    /\ \E tables \in TableChoices(frame) :
          IF fileExists
          THEN /\ pc' = "prompt"
               /\ pending' = tables
               /\ op' = Call("create_database", "input", "", FALSE)
               /\ out' = NoOutcome
               /\ UNCHANGED <<fileExists, store>>
          ELSE /\ AddTablesBody("create_database", "", tables, "fail")
               /\ UNCHANGED <<pc, pending>>
    /\ UNCHANGED <<frameVars, engine, created, unlinkFailed>>

\* The answer to input(): anything but yes returns; yes enters _delete_database,
\* which disposes of the engine and sets DATABASE_ENGINE to None.
Respond ==
    /\ pc = "prompt"
    /\ \E response \in Responses :
          IF IsYes(response)
          THEN /\ created < MaxEngines
               /\ IF engine = None
                  THEN /\ out' = Raise("AttributeError")
                       /\ op' = Call("create_database", "done", response, FALSE)
                       /\ pc' = "idle"
                       /\ pending' = <<>>
                       /\ UNCHANGED engine
                  ELSE /\ engine' = None
                       /\ op' = Call("create_database", "unlink", response, FALSE)
                       /\ pc' = "unlink"
                       /\ UNCHANGED <<out, pending>>
          ELSE /\ out' = Ok(NA)
               /\ op' = Call("create_database", "done", response, FALSE)
               /\ pc' = "idle"
               /\ pending' = <<>>
               /\ UNCHANGED engine
    /\ UNCHANGED <<frameVars, fileExists, store, created, unlinkFailed>>

\* DATABASE_PATH.unlink() raises, and create_database with it
UnlinkFails ==
    /\ pc = "unlink"
    /\ out' = Raise("OSError")
    /\ op' = Call("create_database", "done", op.response, FALSE)
    /\ pc' = "idle"
    /\ pending' = <<>>
    /\ unlinkFailed' = TRUE
    /\ UNCHANGED <<frameVars, fileExists, store, engine, created>>

\* DATABASE_PATH.unlink() deletes the file, and _delete_database makes a new engine
Unlink ==
    /\ pc = "unlink"
    /\ fileExists' = FALSE
    /\ store' = [n \in TableNames |-> NoTable]
    /\ engine' = create_engine(created + 1)
    /\ created' = created + 1
    /\ op' = Call("create_database", "add_tables", op.response, FALSE)
    /\ pc' = "add_tables"
    /\ UNCHANGED <<frameVars, out, pending, unlinkFailed>>

\* The add_tables(tables) that ends create_database after _delete_database
AddPendingTables ==
    /\ pc = "add_tables"
    /\ AddTablesBody("create_database", op.response, pending, "fail")
    /\ pc' = "idle"
    /\ pending' = <<>>
    /\ UNCHANGED <<frameVars, engine, created, unlinkFailed>>

\* add_tables(tables, **kwargs), with if_exists left at "fail" or set to "replace"
AddTables ==
    /\ pc = "idle"
    /\ \E tables \in TableChoices(frame), ifExists \in {"fail", "replace"} :
          AddTablesBody("add_tables", "", tables, ifExists)
    /\ UNCHANGED <<frameVars, engine, pc, pending, created, unlinkFailed>>

\* A call that queries the store: opening the connection makes the file
Query(name, result) ==
    LET c == Connect(engine)
    IN  /\ pc = "idle"
        /\ op' = Call(name, "done", "", c.kind = "ok")
        /\ out' = IF c.kind = "raise" THEN c ELSE result
        /\ fileExists' = (fileExists \/ c.kind = "ok")
        /\ UNCHANGED <<frameVars, engine, store, pc, pending, created, unlinkFailed>>

\* get_loan_metadata()
GetLoanMetadata == Query("get_loan_metadata", LoanMetadataQuery(store))

\* get_loan_data()
GetLoanData == Query("get_loan_data", LoanDataQuery(store))

\* table_exists(table_name)
TableExists ==
    \E name \in TableNames \cup {"rejected_loans"} :
        Query("table_exists", Ok(Bool(TableExistsQuery(store, name))))

NextStore ==
    \/ CreateDatabase
    \/ Respond
    \/ UnlinkFails
    \/ Unlink
    \/ AddPendingTables
    \/ AddTables
    \/ GetLoanMetadata
    \/ GetLoanData
    \/ TableExists

SpecStore == InitStore /\ [][NextStore]_vars

(***************************************************************************)
(* Claims about the conversions (checked under SpecConvert)                *)
(***************************************************************************)
AbbrLowerCase ==
    << <<"j","a","n">>, <<"f","e","b">>, <<"m","a","r">>, <<"a","p","r">>,
       <<"m","a","y">>, <<"j","u","n">>, <<"j","u","l">>, <<"a","u","g">>,
       <<"s","e","p">>, <<"o","c","t">>, <<"n","o","v">>, <<"d","e","c">> >>

TwoDigitMonth ==
    << <<"0","1">>, <<"0","2">>, <<"0","3">>, <<"0","4">>, <<"0","5">>, <<"0","6">>,
       <<"0","7">>, <<"0","8">>, <<"0","9">>, <<"1","0">>, <<"1","1">>, <<"1","2">> >>

\* tok is the m-th month abbreviation in some letter case
IsAbbrOf(tok, m) ==
    /\ Len(tok) = Len(AbbrLowerCase[m])
    /\ \A k \in DOMAIN tok : tok[k] \in {AbbrLowerCase[m][k], AbbrUpperCase[m][k]}

\* s is the m-th month abbreviation, a hyphen and the year y
IsMonYear(s, m, y) ==
    /\ Len(s) = Len(AbbrLowerCase[m]) + 1 + Len(y)
    /\ IsAbbrOf(SubSeq(s, 1, Len(AbbrLowerCase[m])), m)
    /\ s[Len(AbbrLowerCase[m]) + 1] = "-"
    /\ SubSeq(s, Len(AbbrLowerCase[m]) + 2, Len(s)) = y

DateColumnSet == {ACC_LOANS_DATE_COLUMNS[k] : k \in DOMAIN ACC_LOANS_DATE_COLUMNS}

BooleanColumnSet == {ACC_LOANS_BOOLEAN_COLUMNS[k] : k \in DOMAIN ACC_LOANS_BOOLEAN_COLUMNS}

IsConvert == op.name = "convert_acc_loan_data"

\* C1: _get_iso_date_string turns "Mon-YYYY", the month abbreviation in any letter
\* case, into "YYYY-MM" with MM the zero-padded number of the month and the year
\* unchanged; a call of convert_acc_loan_data with "dates" that returns has done
\* so in every date cell, and whether it returns or raises, a null date cell is
\* still null.
C1_IsoDateString ==
    /\ op.name = "_get_iso_date_string" =>
          \A m \in 1..12, y \in RawYears :
              IsMonYear(op.element, m, y) => out = Ok(y \o <<"-">> \o TwoDigitMonth[m])
    /\ (IsConvert /\ "dates" \in op.conversions) =>
          \A i \in DOMAIN arg, c \in DateColumnSet :
              /\ IsNA(arg[i][c]) => IsNA(frame[i][c])
              /\ out.kind = "ok" =>
                    \A m \in 1..12, y \in RawYears :
                        (~IsNA(arg[i][c]) /\ IsMonYear(arg[i][c].v, m, y)) =>
                            out.value[i][c] = Str(y \o <<"-">> \o TwoDigitMonth[m])

\* C1 witness: a conversion of the dates has returned, and it left a null issue
\* date null and turned jUn-2015 into 2015-06.
C1_Witness ==
    /\ IsConvert /\ "dates" \in op.conversions /\ out.kind = "ok"
    /\ \E i, j \in DOMAIN arg :
          /\ IsNA(arg[i]["issue_d"]) /\ IsNA(frame[i]["issue_d"])
          /\ arg[j]["issue_d"] = Str(<<"j","U","n","-","2","0","1","5">>)
          /\ frame[j]["issue_d"] = Str(<<"2","0","1","5","-","0","6">>)

IsYesNo(s) == s \in {<<"Y">>, <<"y">>, <<"N">>, <<"n">>}

\* C7 as stated: with "booleans" enabled, a boolean cell holding anything but
\* Y/N (in either case) or null makes the conversion fail with an error.
C7_UnexpectedCodeRaises ==
    (/\ IsConvert /\ "booleans" \in op.conversions
     /\ \E i \in DOMAIN arg, c \in BooleanColumnSet :
           ~IsNA(arg[i][c]) /\ ~IsYesNo(arg[i][c].v))
    => out.kind = "raise"

\* C7 amended: the "booleans" step never raises, and when the conversion returns,
\* Y/y has become true, N/n false, null is still null, and a cell holding any
\* other string has become null.
C7_UnexpectedCodeBecomesNull ==
    IsConvert =>
        /\ op.conversions = {"booleans"} => out.kind = "ok"
        /\ (out.kind = "ok" /\ "booleans" \in op.conversions) =>
              \A i \in DOMAIN arg, c \in BooleanColumnSet :
                  LET before == arg[i][c]
                      after == out.value[i][c]
                  IN  /\ IsNA(before) => IsNA(after)
                      /\ (~IsNA(before) /\ before.v \in {<<"Y">>, <<"y">>}) => after = Bool(TRUE)
                      /\ (~IsNA(before) /\ before.v \in {<<"N">>, <<"n">>}) => after = Bool(FALSE)
                      /\ (~IsNA(before) /\ ~IsYesNo(before.v)) => IsNA(after)

\* C7 witness: a conversion of the booleans has returned with the code X turned
\* into null and the code y into true.
C7_Witness ==
    /\ IsConvert /\ "booleans" \in op.conversions /\ out.kind = "ok"
    /\ \E i, j \in DOMAIN arg :
          /\ arg[i]["pymnt_plan"] = Str(<<"X">>) /\ IsNA(out.value[i]["pymnt_plan"])
          /\ arg[j]["pymnt_plan"] = Str(<<"y">>) /\ out.value[j]["pymnt_plan"] = Bool(TRUE)

HyphenCount(s) == Cardinality({i \in DOMAIN s : s[i] = "-"})

\* The text before the first hyphen (all of s when it has none)
MonthToken(s) ==
    IF HyphenCount(s) = 0 THEN s
    ELSE SubSeq(s, 1, (CHOOSE i \in DOMAIN s :
                          s[i] = "-" /\ \A j \in 1..(i - 1) : s[j] # "-") - 1)

IsRecognizedMonth(tok) == \E m \in 1..12 : IsAbbrOf(tok, m)

\* C8 as stated: _get_iso_date_string raises ValueError for a string whose month
\* abbreviation is not recognized and for a string without exactly one hyphen.
C8_AlwaysValueError ==
    (/\ op.name = "_get_iso_date_string"
     /\ (HyphenCount(op.element) # 1 \/ ~IsRecognizedMonth(MonthToken(op.element))))
    => out = Raise("ValueError")

\* C8 amended: _get_iso_date_string raises ValueError for a string without exactly
\* one hyphen, and KeyError for a string with exactly one hyphen whose text before
\* the hyphen is not a recognized month abbreviation; in neither case does it
\* return a string.
C8_ValueErrorOrKeyError ==
    op.name = "_get_iso_date_string" =>
        /\ HyphenCount(op.element) # 1 => out = Raise("ValueError")
        /\ (HyphenCount(op.element) = 1 /\ ~IsRecognizedMonth(MonthToken(op.element)))
              => out = Raise("KeyError")

\* C8 witness: Foo-2015 has raised KeyError.
C8_Witness ==
    /\ op.name = "_get_iso_date_string"
    /\ op.element = <<"F","o","o","-","2","0","1","5">>
    /\ out = Raise("KeyError")

(***************************************************************************)
(* Claims about the row filter (checked under SpecFilter)                  *)
(***************************************************************************)
\* The issue dates of the loaded dataframes that are >= "2012-01" as strings
IssuedFrom2012 ==
    {<<"2","0","1","2","-","0","1">>, <<"2","0","1","5","-","0","6">>,
     <<"J","u","n","-","2","0","1","5">>}

\* The loan statuses of the loaded dataframes that start with "Does not meet"
NotMeetingStatuses ==
    {<<"D","o","e","s"," ","n","o","t"," ","m","e","e","t"," ","t","h","e"," ","c","r","e","d","i","t"," ","p","o","l","i","c","y","."," ","S","t","a","t","u","s",":","F","u","l","l","y"," ","P","a","i","d">>,
     <<"D","o","e","s"," ","n","o","t"," ","m","e","e","t">>}

\* The condition of the claim, for a row whose cells decide it
ShouldKeep(r) ==
    /\ ~IsNA(r.loan_status) /\ r.loan_status.v \notin NotMeetingStatuses
    /\ ~IsNA(r.issue_d) /\ r.issue_d.v \in IssuedFrom2012
    /\ ~(\/ (r.grade.v # <<"A">> /\ r.int_rate.v < 7)
         \/ (r.grade.v = <<"D">> /\ r.int_rate.v < 9))

\* The cells of the row decide the condition: the status or the issue date is
\* null (the row is excluded), or neither the grade nor the rate is null.
Decided(r) ==
    IsNA(r.loan_status) \/ IsNA(r.issue_d) \/ (~IsNA(r.grade) /\ ~IsNA(r.int_rate))

RECURSIVE RowsAt(_, _)
\* The rows of f at the indexes S, in the order of f
RowsAt(f, S) ==
    IF S = {} THEN <<>>
    ELSE LET i == CHOOSE x \in S : \A y \in S : x <= y
         IN  <<f[i]>> \o RowsAt(f, S \ {i})

IsYearMonthCell(c) ==
    ~IsNA(c) /\ \E y \in PeriodYears, m \in 1..12 : c.v = YearMonth(y, m)

\* C2: for every row, get_duration returns (end_year*12 + end_month) -
\* (start_year*12 + start_month) when the start and the end are "YYYY-MM" strings,
\* and null when either is null; it returns whenever every cell is one or the other.
C2_DurationInMonths ==
    op.name = "get_duration" =>
        /\ (\A i \in DOMAIN arg :
               /\ IsNA(arg[i].start) \/ IsYearMonthCell(arg[i].start)
               /\ IsNA(arg[i].end) \/ IsYearMonthCell(arg[i].end))
           => out.kind = "ok"
        /\ out.kind = "ok" =>
              \A i \in DOMAIN arg :
                  /\ (IsNA(arg[i].start) \/ IsNA(arg[i].end)) => out.value[i] = NA
                  /\ \A ys \in PeriodYears, ye \in PeriodYears, ms \in 1..12, me \in 1..12 :
                        (/\ arg[i].start = Str(YearMonth(ys, ms))
                         /\ arg[i].end = Str(YearMonth(ye, me)))
                        => out.value[i] = Int64((ye.n * 12 + me) - (ys.n * 12 + ms))

\* C2 witness: 2015-12 to 2016-06 has given 6, a row without a start null, and a
\* row that ends before it starts a negative number.
C2_Witness ==
    /\ op.name = "get_duration" /\ out.kind = "ok" /\ Len(arg) = 2
    /\ arg[1].start = Str(<<"2","0","1","6","-","0","2">>)
    /\ arg[1].end = Str(<<"2","0","1","5","-","1","1">>)
    /\ out.value[1] = Int64(0 - 3)
    /\ arg[2] = PeriodRow(Str(<<"2","0","1","5","-","1","2">>), Str(<<"2","0","1","6","-","0","6">>))
    /\ out.value[2] = Int64(6)

\* C3: get_annualized_return raises to the power 12 / max(duration, 1): the number
\* of months is the duration when it is >= 1 and 1 otherwise, never zero or
\* negative, so a row of duration <= 1 has the result of a row of the same profit
\* and duration 1.
C3_ClampedMonths ==
    (op.name = "get_annualized_return" /\ out.kind = "ok") =>
        \A i \in DOMAIN arg :
            ~IsNA(arg[i].profit) =>
                /\ out.value[i].expNum = 12
                /\ out.value[i].expDen >= 1
                /\ arg[i].duration.v >= 1 => out.value[i].expDen = arg[i].duration.v
                /\ arg[i].duration.v <= 1 => out.value[i].expDen = 1
                /\ \A j \in DOMAIN arg :
                      (/\ arg[j].profit = arg[i].profit
                       /\ arg[i].duration.v <= 1
                       /\ arg[j].duration.v = 1)
                      => out.value[i] = out.value[j]

\* C3 witness: a profit of 4 hundredths over 0 months and the same profit over 1
\* month have the same annualized return, with the exponent 12/1.
C3_Witness ==
    /\ op.name = "get_annualized_return" /\ out.kind = "ok" /\ Len(arg) = 2
    /\ arg[1] = ReturnRow(Num(4), Int64(0))
    /\ arg[2] = ReturnRow(Num(4), Int64(1))
    /\ out.value[1] = out.value[2]
    /\ out.value[1].expDen = 1

(***************************************************************************)
(* Claims about the store (checked under SpecStore)                        *)
(***************************************************************************)
\* C5: when create_database finds the file and the answer is anything but exactly
\* "yes", the call returns without raising and the file, the tables and the engine
\* handle are as they were; the file is deleted only after the answer "yes".
C5_OnlyYesReplaces ==
    [][/\ (pc = "prompt" /\ op'.response # "yes") =>
              /\ out' = Ok(NA)
              /\ pc' = "idle"
              /\ UNCHANGED <<fileExists, store, engine>>
       /\ (fileExists /\ ~fileExists') => (pc = "unlink" /\ op.response = "yes")
      ]_vars

\* C5 witness: create_database has returned on the answer "Yes", and the file and
\* the loan_data table written before are still there.
C5_Witness ==
    /\ op = Call("create_database", "done", "Yes", FALSE)
    /\ out = Ok(NA)
    /\ pc = "idle"
    /\ fileExists
    /\ store["loan_data"].exists
    /\ engine = 1

StoreCalls == {"get_loan_data", "get_loan_metadata", "add_tables", "table_exists"}

\* C9: a call of get_loan_data, get_loan_metadata, add_tables or table_exists made
\* while DATABASE_ENGINE is None raises RuntimeError with the one fixed message,
\* opens no connection and leaves the file and the tables as they were.
C9_MissingEngineRaises ==
    [][(pc = "idle" /\ engine = 0 /\ op'.name \in StoreCalls) =>
          /\ out'.kind = "raise"
          /\ out'.exc = "RuntimeError"
          /\ out'.msg = "Unable to add database tables because the engine is not instantiated."
          /\ ~op'.connected
          /\ UNCHANGED <<fileExists, store, engine>>
      ]_vars

\* C9 witness: get_loan_data has raised the RuntimeError while the handle is None.
C9_Witness ==
    /\ engine = 0
    /\ pc = "idle"
    /\ op.name = "get_loan_data"
    /\ out.kind = "raise"
    /\ out.exc = "RuntimeError"

\* C10: as long as no unlink has failed, DATABASE_ENGINE is None only inside
\* _delete_database, between the disposal and the new engine: it is not None
\* before or after any call, and the add_tables that follows a teardown runs with
\* the engine made last.
C10_EngineHandle ==
    ~unlinkFailed =>
        /\ engine = 0 => pc = "unlink"
        /\ pc \in {"idle", "prompt"} => engine # 0
        /\ pc = "add_tables" => (engine # 0 /\ engine = created /\ created > 1)

\* C10 witness: a create_database answered "yes" has torn the engine down, made a
\* new one and returned.
C10_Witness ==
    /\ ~unlinkFailed
    /\ op = Call("create_database", "done", "yes", TRUE)
    /\ pc = "idle"
    /\ engine = 2
    /\ out.kind = "ok"

IsLoanDataRead ==
    /\ op.name = "get_loan_data"
    /\ op.connected
    /\ store["loan_data"].exists
    /\ store["loan_metadata"].exists

\* The dataframe read back has the columns of the dataset and its non-null values
ReadBack(df) ==
    /\ out.kind = "ok"
    /\ out.value.columns = df.columns
    /\ Len(out.value.rows) = Len(df.rows)
    /\ \A i \in DOMAIN df.rows, c \in ColumnSet(df) :
          ~IsNA(df.rows[i][c]) => out.value.rows[i][c] = df.rows[i][c]

\* C6 as stated: once the dataset is written as loan_data and the dataframe of
\* get_loan_metadata as loan_metadata, get_loan_data returns the column names and
\* the non-null values of the dataset.
C6_RoundTrip == IsLoanDataRead => ReadBack(arg)

\* A nullable-integer column that holds a null and an integer above 2^53
HasLossyIntColumn(df) ==
    \E c \in ColumnSet(df) :
        /\ df.dtypes[c] = "Int64"
        /\ \E i \in DOMAIN df.rows : IsNA(df.rows[i][c])
        /\ \E i \in DOMAIN df.rows : ~IsNA(df.rows[i][c]) /\ IsAbove(df.rows[i][c])

\* C6 amended: the round trip holds when the metadata was written with "column
\* name" as a column (the index of get_loan_metadata's dataframe reset, since
\* add_tables writes no index) and no nullable-integer column holds both a null
\* and an integer above 2^53.
C6_RoundTripWithColumnName ==
    (/\ IsLoanDataRead
     /\ \E k \in DOMAIN store["loan_metadata"].columns :
           store["loan_metadata"].columns[k] = "column name"
     /\ ~HasLossyIntColumn(arg))
    => ReadBack(arg)

\* C6 witness: a dataset of a full row and an empty row has been read back, the
\* full row with its integer, float, string and boolean.
C6_Witness ==
    /\ IsLoanDataRead
    /\ out.kind = "ok"
    /\ Len(arg.rows) = 2
    /\ arg.rows[1] = StoreRow(Int64(7), Flt(27), Str("A"), Bool(TRUE))
    /\ arg.rows[2] = StoreRow(NA, NA, NA, NA)
    /\ out.value.rows[1] = arg.rows[1]

====
